---- MODULE Spec2Model ----
(***************************************************************************)
(* Model of wimp.py: flight-number resolution, the concurrent fetch        *)
(* fan-out, the raw history validator, the aircraft identifier, the        *)
(* location inferencer and the output formatter.                           *)
(*                                                                         *)
(* Text the code indexes, splits or parses (flight numbers, airline names, *)
(* airport fields) is a sequence of one-character strings.                 *)
(***************************************************************************)
EXTENDS Integers, Sequences, FiniteSets, TLC

VARIABLES
    flight_number,      \* the argument of the two resolver functions
    history_ret,        \* what get_flight_history returned
    resolved_ret,       \* what get_flight_number_resolved returned
    query_type,         \* get_api_data: 'flight', 'aircraft' or something else
    query_args,         \* get_api_data: the list of query arguments
    from_api,           \* get_api_data: the from_api flag
    threads,            \* get_api_data: the _api_query threads started so far
    return_map,         \* get_api_data: the shared _return dict
    api_ret,            \* what get_api_data returned
    dv_name,            \* data_validator: 'flight_number' or 'aircraft_reg'
    dv_raw_data,        \* data_validator: the fetched rows, or None
    dv_short,           \* data_validator: the short flag
    clock_now,          \* the instant datetime.now() reads, in minutes
    aircraft_reg,       \* the global generate_output prints
    validated_ret,      \* what data_validator returned
    reg_ret,            \* what get_aircraft_reg_from_flight returned
    location_ret,       \* what get_aircraft_location returned
    output_ret,         \* what generate_output returned
    window_rows,        \* the row list the short window is applied to
    window_prev,        \* the row list before the last application
    window_passes       \* how often the window has been applied

resolverVars == <<flight_number, history_ret, resolved_ret>>
apiVars == <<query_type, query_args, from_api, threads, return_map, api_ret>>
pipeVars == <<dv_name, dv_raw_data, dv_short, clock_now, aircraft_reg,
              validated_ret, reg_ret, location_ret, output_ret>>
windowVars == <<window_rows, window_prev, window_passes>>

vars == <<resolverVars, apiVars, pipeVars, windowVars>>

(***************************************************************************)
(* Bounds                                                                  *)
(***************************************************************************)
MaxDigits == 3
MaxVariants == 2
MaxRows == 3
MaxPasses == 2
MaxDelay == 6

(***************************************************************************)
(* Python values                                                           *)
(***************************************************************************)
\* A call that has not been made yet.
Unset == [kind |-> "unset", val |-> <<>>, exc |-> ""]
\* return None
RetNone == [kind |-> "None", val |-> <<>>, exc |-> ""]
\* return <value>
Ret(v) == [kind |-> "value", val |-> v, exc |-> ""]
\* an exception that leaves the function
Raise(e) == [kind |-> "raise", val |-> <<>>, exc |-> e]

(***************************************************************************)
(* str methods                                                             *)
(***************************************************************************)
DigitChars == <<"0", "1", "2", "3", "4", "5", "6", "7", "8", "9">>
LowerChars == <<"a", "b", "c", "d", "e", "f", "g", "h", "i", "j", "k", "l", "m",
                "n", "o", "p", "q", "r", "s", "t", "u", "v", "w", "x", "y", "z">>
UpperChars == <<"A", "B", "C", "D", "E", "F", "G", "H", "I", "J", "K", "L", "M",
                "N", "O", "P", "Q", "R", "S", "T", "U", "V", "W", "X", "Y", "Z">>

InSeq(c, s) == \E i \in DOMAIN s : s[i] = c
IndexOf(c, s) == CHOOSE i \in DOMAIN s : s[i] = c

isdigit(c) == InSeq(c, DigitChars)
isupper(c) == InSeq(c, UpperChars)
islower(c) == InSeq(c, LowerChars)
isalpha(c) == isupper(c) \/ islower(c)
isspace(c) == c = " "

upper_char(c) == IF islower(c) THEN UpperChars[IndexOf(c, LowerChars)] ELSE c
lower_char(c) == IF isupper(c) THEN LowerChars[IndexOf(c, UpperChars)] ELSE c
upper(s) == [i \in 1..Len(s) |-> upper_char(s[i])]
lower(s) == [i \in 1..Len(s) |-> lower_char(s[i])]

startswith(s, p) == Len(p) <= Len(s) /\ SubSeq(s, 1, Len(p)) = p

\* s[n:] for 0 <= n
SliceFrom(s, n) == SubSeq(s, n + 1, Len(s))

\* s.replace(c, '', 1): the first occurrence of c removed
replace_first(s, c) ==
    IF InSeq(c, s)
    THEN LET i == CHOOSE k \in DOMAIN s : s[k] = c /\ \A j \in 1..(k - 1) : s[j] # c
         IN  SubSeq(s, 1, i - 1) \o SubSeq(s, i + 1, Len(s))
    ELSE s

\* s.split(): the words between runs of whitespace
RECURSIVE split_from(_, _, _, _)
split_from(s, i, cur, acc) ==
    IF i > Len(s)
    THEN IF cur = <<>> THEN acc ELSE Append(acc, cur)
    ELSE IF isspace(s[i])
         THEN split_from(s, i + 1, <<>>, IF cur = <<>> THEN acc ELSE Append(acc, cur))
         ELSE split_from(s, i + 1, Append(cur, s[i]), acc)
split(s) == split_from(s, 1, <<>>, <<>>)

\* ' '.join(words)
RECURSIVE join(_)
join(words) ==
    IF words = <<>> THEN <<>>
    ELSE IF Len(words) = 1 THEN words[1]
    ELSE words[1] \o <<" ">> \o join(Tail(words))

\* re.split(r'(\d+)', s): the text before the first digit run, then each digit
\* run followed by the text after it (the last one possibly empty).
RECURSIVE re_split_from(_, _, _, _)
re_split_from(s, i, cur, acc) ==
    LET inDigits == Len(acc) % 2 = 1 IN
    IF i > Len(s)
    THEN IF inDigits THEN Append(Append(acc, cur), <<>>) ELSE Append(acc, cur)
    ELSE IF isdigit(s[i]) = inDigits
         THEN re_split_from(s, i + 1, Append(cur, s[i]), acc)
         ELSE re_split_from(s, i + 1, <<s[i]>>, Append(acc, cur))
re_split_digits(s) == re_split_from(s, 1, <<>>, <<>>)

\* int(s) accepts a non-empty run of digits (anything else is a ValueError)
int_ok(s) == s # <<>> /\ \A i \in DOMAIN s : isdigit(s[i])
RECURSIVE int(_)
int(s) ==
    IF s = <<>> THEN 0
    ELSE 10 * int(SubSeq(s, 1, Len(s) - 1)) + (IndexOf(s[Len(s)], DigitChars) - 1)

\* f'{n}' for n >= 0
RECURSIVE format_nat(_)
format_nat(n) ==
    IF n < 10 THEN <<DigitChars[n + 1]>>
    ELSE format_nat(n \div 10) \o <<DigitChars[(n % 10) + 1]>>

(***************************************************************************)
(* Reference tables: the airline records data_loader unpickles.  The       *)
(* carrier code may be empty.                                              *)
(***************************************************************************)
airlines_pkl ==
    << [ICAO |-> <<"E", "Z", "Y">>, Name |-> <<"e", "a", "s", "y", "J", "e", "t">>,
        Code |-> <<"U", "2">>],
       [ICAO |-> <<"E", "J", "U">>,
        Name |-> <<"e", "a", "s", "y", "J", "e", "t", " ", "E", "u", "r", "o", "p", "e">>,
        Code |-> <<"E", "C">>],
       [ICAO |-> <<"E", "Z", "S">>,
        Name |-> <<"e", "a", "s", "y", "J", "e", "t", " ", "S", "w", "i", "s", "s">>,
        Code |-> <<>>],
       [ICAO |-> <<"E", "Z", "U">>,
        Name |-> <<"e", "a", "s", "y", "J", "e", "t", " ", "U", "K">>,
        Code |-> <<"U", "2">>],
       [ICAO |-> <<"R", "Y", "R">>, Name |-> <<"R", "y", "a", "n", "a", "i", "r">>,
        Code |-> <<"F", "R">>],
       [ICAO |-> <<"J", "A", "I">>,
        Name |-> <<"J", "e", "t", " ", "A", "i", "r", "w", "a", "y", "s">>,
        Code |-> <<"9", "W">>] >>

\* A dict built by a comprehension over the records: the last record with a
\* key wins, and the keys keep the order of their first insertion.
LastOf(hits) == CHOOSE i \in hits : \A j \in hits : j <= i

by_icao_has(k) == \E i \in DOMAIN airlines_pkl : airlines_pkl[i].ICAO = k
by_icao(k) == airlines_pkl[LastOf({i \in DOMAIN airlines_pkl : airlines_pkl[i].ICAO = k})]

by_name_has(k) == \E i \in DOMAIN airlines_pkl : airlines_pkl[i].Name = k
by_name(k) == airlines_pkl[LastOf({i \in DOMAIN airlines_pkl : airlines_pkl[i].Name = k})]

\* only the records with a non-empty code are keys of by_code
by_code_has(k) == k # <<>> /\ \E i \in DOMAIN airlines_pkl : airlines_pkl[i].Code = k
by_code(k) == airlines_pkl[LastOf({i \in DOMAIN airlines_pkl : airlines_pkl[i].Code = k})]

\* the keys of airlines['by_name'], in insertion order
RECURSIVE by_name_keys_from(_, _)
by_name_keys_from(i, acc) ==
    IF i > Len(airlines_pkl) THEN acc
    ELSE by_name_keys_from(i + 1,
            IF InSeq(airlines_pkl[i].Name, acc) THEN acc
            ELSE Append(acc, airlines_pkl[i].Name))
by_name_keys == by_name_keys_from(1, <<>>)

\* airlines['multi'].get(name): the name followed by every other airline name
\* that starts with it; <<>> when there is no entry.
multi(name) ==
    LET IsSister(n) == startswith(n, name) /\ n # name
        sisters == SelectSeq(by_name_keys, IsSister)
    IN  IF InSeq(name, by_name_keys) /\ sisters # <<>> THEN <<name>> \o sisters ELSE <<>>

\* airlines_multi_codes: the codes of the group of the shortest word prefix of
\* the name that has a group; found = FALSE is its None.
airlines_multi_codes(airline_name) ==
    LET words == split(airline_name)
        Key(i) == join(SubSeq(words, 1, i))
        hits == {i \in 1..Len(words) : multi(Key(i)) # <<>>}
    IN  IF hits = {} THEN [found |-> FALSE, codes |-> <<>>]
        ELSE LET i == CHOOSE k \in hits : \A j \in hits : k <= j
                 group == multi(Key(i))
             IN  [found |-> TRUE,
                  codes |-> [k \in 1..Len(group) |-> by_name(group[k]).Code]]

(***************************************************************************)
(* get_flight_history                                                      *)
(***************************************************************************)
ReservedCode == <<"U", "2">>

\* (mutant) replace('0', '') without the count: every zero removed
ZeroStripped_all(code, numbers) ==
    IF code = ReservedCode /\ startswith(numbers, <<"0">>)
    THEN <<code \o SelectSeq(numbers, LAMBDA c : c # "0")>>
    ELSE <<>>

\* the variant with the first zero of the suffix removed, for the reserved code
ZeroStripped(code, numbers) ==
    IF code = ReservedCode /\ startswith(numbers, <<"0">>)
    THEN <<code \o replace_first(numbers, "0")>>
    ELSE <<>>

get_flight_history(fn) ==
    IF fn = <<>> THEN RetNone
    ELSE LET up    == upper(fn)
             parts == re_split_digits(up)
         IN  IF Len(parts) # 3 THEN Raise("ValueError")
             ELSE LET letters == parts[1]
                      numbers == parts[2]
                  IN  IF by_icao_has(letters) /\ by_icao(letters).Code # <<>>
                      THEN LET code == by_icao(letters).Code
                           IN  Ret(<<up, code \o numbers>> \o ZeroStripped(code, numbers))
                      ELSE Ret(<<up>>)

(***************************************************************************)
(* get_flight_number_resolved                                              *)
(***************************************************************************)
\* (mutant) the suffix appended as typed, without the int() round trip
WithSuffix_verbatim(codes, numbers) ==
    [k \in 1..Len(codes) |-> codes[k] \o numbers]

\* f'{code}{int(_numbers)}' for every code of the list
WithSuffix(codes, numbers) ==
    [k \in 1..Len(codes) |-> codes[k] \o format_nat(int(numbers))]

NonEmptyCode(c) == c # <<>>

\* the branch taken once the letters and the numbers are split
ResolveSplit(letters, numbers) ==
    IF by_code_has(letters)
    THEN LET a == by_code(letters)
             m == airlines_multi_codes(a.Name)
             codes == IF m.found THEN SelectSeq(m.codes, NonEmptyCode) ELSE <<a.Code>>
         IN  IF codes # <<>> /\ ~int_ok(numbers) THEN Raise("ValueError")
             ELSE Ret(WithSuffix(codes, numbers))
    ELSE IF by_icao_has(letters)
    THEN LET a == by_icao(letters)
             m == airlines_multi_codes(a.Name)
             codes == IF m.found THEN m.codes ELSE <<a.Code>>
         IN  IF ~int_ok(numbers) THEN Raise("ValueError")
             ELSE Ret(WithSuffix(codes, numbers))
    ELSE Ret(<<>>)

get_flight_number_resolved(fn) ==
    IF fn = <<>> THEN RetNone
    ELSE IF Len(fn) < 2 THEN Raise("IndexError")
    ELSE IF \/ isalpha(fn[1]) /\ isdigit(fn[2])
            \/ isalpha(fn[2]) /\ isdigit(fn[1])
         THEN ResolveSplit(SubSeq(fn, 1, 2), SliceFrom(fn, 2))
         ELSE LET parts == re_split_digits(upper(fn))
              IN  IF Len(parts) # 3 THEN Raise("ValueError")
                  ELSE ResolveSplit(parts[1], parts[2])

(***************************************************************************)
(* Resolver specification: every input of the form <code><digits>, each    *)
(* resolver function applied to it.                                        *)
(***************************************************************************)
SuffixDigits == {"0", "5", "7"}

RECURSIVE DigitStrings(_)
DigitStrings(n) ==
    IF n = 0 THEN {<<>>}
    ELSE {Append(s, d) : s \in DigitStrings(n - 1), d \in SuffixDigits}

Suffixes == UNION {DigitStrings(n) : n \in 1..MaxDigits}

\* carrier codes (known, unknown, lower case, digit first) and ICAO codes
InputCodes ==
    { <<"U", "2">>, <<"u", "2">>, <<"F", "R">>, <<"E", "C">>, <<"Z", "Z">>,
      <<"9", "W">>, <<"E", "Z", "Y">>, <<"E", "Z", "S">>, <<"R", "Y", "R">> }

FlightNumbers == {c \o s : c \in InputCodes, s \in Suffixes}

ApiIdle ==
    /\ query_type = ""
    /\ query_args = <<>>
    /\ from_api = FALSE
    /\ threads = <<>>
    /\ return_map = <<>>
    /\ api_ret = Unset

PipeIdle ==
    /\ dv_name = ""
    /\ dv_raw_data = [present |-> FALSE, rows |-> <<>>]
    /\ dv_short = FALSE
    /\ clock_now = 0
    /\ aircraft_reg = <<>>
    /\ validated_ret = Unset
    /\ reg_ret = Unset
    /\ location_ret = Unset
    /\ output_ret = Unset

WindowIdle ==
    /\ window_rows = <<>>
    /\ window_prev = <<>>
    /\ window_passes = 0

InitResolver ==
    /\ flight_number \in FlightNumbers
    /\ history_ret = Unset
    /\ resolved_ret = Unset
    /\ ApiIdle /\ PipeIdle /\ WindowIdle

CallGetFlightHistory ==
    /\ history_ret = Unset
    /\ history_ret' = get_flight_history(flight_number)
    /\ UNCHANGED <<flight_number, resolved_ret, apiVars, pipeVars, windowVars>>

CallGetFlightNumberResolved ==
    /\ resolved_ret = Unset
    /\ resolved_ret' = get_flight_number_resolved(flight_number)
    /\ UNCHANGED <<flight_number, history_ret, apiVars, pipeVars, windowVars>>

NextResolver == CallGetFlightHistory \/ CallGetFlightNumberResolved

SpecResolver == InitResolver /\ [][NextResolver]_vars

(***************************************************************************)
(* get_api_data: one _api_query thread per query argument, all writing the *)
(* shared _return dict, joined before the dict is filtered.                *)
(***************************************************************************)
\* What the scraper subprocess can print: nothing, an empty JSON list, rows,
\* or text that is no JSON once every ' is replaced by ".
Stdouts == {"", "[]", "[['G-EZUK']]", "[['G-EZWX']]", "[['O'Hare']]"}

json_loads_ok(out) == out # "[['O'Hare']]"
json_loads(out) ==
    CASE out = "[]"           -> <<>>
      [] out = "[['G-EZUK']]" -> <<"G-EZUK">>
      [] out = "[['G-EZWX']]" -> <<"G-EZWX">>

\* the values of the dict: None, or the parsed JSON
PyNone == [isNone |-> TRUE, rows |-> <<>>]
Parsed(rows) == [isNone |-> FALSE, rows |-> rows]
Truthy(v) == ~v.isNone /\ v.rows # <<>>

\* d[k] = v
DictSet(d, k, v) == [x \in DOMAIN d \cup {k} |-> IF x = k THEN v ELSE d[x]]
\* {k: v for k, v in d.items() if v}
DictFilter(d) == [x \in {k \in DOMAIN d : Truthy(d[k])} |-> d[x]]

valid_query_types == {"flight", "aircraft"}

\* the key _api_query writes: what follows '=' in f'{query_type}={query_arg.lower()}'
QueryKey(query_arg) == lower(query_arg)

QueryGuard == from_api /\ query_type \in valid_query_types /\ query_args # <<>>

\* the loop at lines 127-131: the next thread is created and started
StartThread ==
    /\ api_ret = Unset
    /\ QueryGuard
    /\ Len(threads) < Len(query_args)
    /\ threads' = Append(threads,
                    [key |-> QueryKey(query_args[Len(threads) + 1]),
                     pc |-> "popen", out |-> ""])
    /\ UNCHANGED <<query_type, query_args, from_api, return_map, api_ret, resolverVars, pipeVars, windowVars>>

\* _api_query, lines 95-96: the subprocess runs and its stdout is read
ApiQueryRead(i) ==
    /\ threads[i].pc = "popen"
    /\ \E out \in Stdouts :
         threads' = [threads EXCEPT ![i].pc = "read", ![i].out = out]
    /\ UNCHANGED <<query_type, query_args, from_api, return_map, api_ret, resolverVars, pipeVars, windowVars>>

\* the value _api_query stores for what it read
StoredValue(out) == IF out # "" THEN Parsed(json_loads(out)) ELSE PyNone

\* _api_query, lines 99-107: the result is stored under the query argument;
\* a JSONDecodeError ends the thread without a store.
ApiQueryStore(i) ==
    /\ threads[i].pc = "read"
    /\ threads' = [threads EXCEPT ![i].pc = "done"]
    /\ return_map' =
         IF threads[i].out # "" /\ ~json_loads_ok(threads[i].out)
         THEN return_map
         ELSE DictSet(return_map, threads[i].key, StoredValue(threads[i].out))
    /\ UNCHANGED <<query_type, query_args, from_api, api_ret, resolverVars, pipeVars, windowVars>>

AllJoined ==
    /\ QueryGuard => Len(threads) = Len(query_args)
    /\ \A i \in DOMAIN threads : threads[i].pc = "done"

\* what get_api_data returns for the dict the threads left
ApiResult(d) ==
    LET filtered == DictFilter(d)
    IN  IF Cardinality(DOMAIN filtered) = 1 THEN Ret(filtered) ELSE RetNone

\* lines 134-149: every thread joined, the dict filtered, the result returned
GetApiDataReturn ==
    /\ api_ret = Unset
    /\ AllJoined
    /\ return_map' = DictFilter(return_map)
    /\ api_ret' = ApiResult(return_map)
    /\ UNCHANGED <<query_type, query_args, from_api, threads, resolverVars, pipeVars, windowVars>>

(***************************************************************************)
(* Fan-out specification: get_api_data on every argument list up to        *)
(* MaxVariants entries, duplicates and case variants included.             *)
(***************************************************************************)
Variants == { <<"U", "2", "7", "5">>, <<"u", "2", "7", "5">>, <<"E", "C", "7", "5">> }

RECURSIVE ArgLists(_)
ArgLists(n) ==
    IF n = 0 THEN {<<>>}
    ELSE ArgLists(n - 1) \cup {Append(l, v) : l \in ArgLists(n - 1), v \in Variants}

ResolverIdle ==
    /\ flight_number = <<>>
    /\ history_ret = Unset
    /\ resolved_ret = Unset

InitApi ==
    /\ query_type \in {"flight", "aircraft", "airport"}
    /\ query_args \in ArgLists(MaxVariants)
    /\ from_api \in BOOLEAN
    /\ threads = <<>>
    /\ return_map = <<>>
    /\ api_ret = Unset
    /\ ResolverIdle /\ PipeIdle /\ WindowIdle

NextApi ==
    \/ StartThread
    \/ \E i \in DOMAIN threads : ApiQueryRead(i)
    \/ \E i \in DOMAIN threads : ApiQueryStore(i)
    \/ GetApiDataReturn

SpecApi == InitApi /\ [][NextApi]_vars

(***************************************************************************)
(* Dates and times.  An aware datetime is its wall-clock reading, in       *)
(* minutes since midnight before the first of the month, and its offset    *)
(* from UTC in minutes; None is a value of its own.                        *)
(***************************************************************************)
NoneDT == [isNone |-> TRUE, local |-> 0, off |-> 0]
DT(local, off) == [isNone |-> FALSE, local |-> local, off |-> off]

\* the instant an aware datetime denotes: comparisons and differences use it
Instant(dt) == dt.local - dt.off

two_digits_ok(s, i) == i + 1 <= Len(s) /\ isdigit(s[i]) /\ isdigit(s[i + 1])
two_digits(s, i) == int(SubSeq(s, i, i + 1))

\* re.match(r'[0-9]{2}:[0-9]{2}', tok)
re_match_hhmm(tok) ==
    Len(tok) >= 5 /\ two_digits_ok(tok, 1) /\ tok[3] = ":" /\ two_digits_ok(tok, 4)

\* strptime '%H:%M'
hhmm_ok(t) ==
    Len(t) = 5 /\ re_match_hhmm(t) /\ two_digits(t, 1) <= 23 /\ two_digits(t, 4) <= 59
hhmm(t) == two_digits(t, 1) * 60 + two_digits(t, 4)

\* strptime '%z' on '+HH:MM'
offset_ok(o) ==
    /\ Len(o) = 6 /\ o[1] \in {"+", "-"} /\ o[4] = ":"
    /\ two_digits_ok(o, 2) /\ two_digits_ok(o, 5)
    /\ two_digits(o, 2) <= 23 /\ two_digits(o, 5) <= 59
offset_minutes(o) ==
    (IF o[1] = "-" THEN -1 ELSE 1) * (two_digits(o, 2) * 60 + two_digits(o, 5))

\* strptime '%d %b %Y'; the rows of one batch lie in one month
date_ok(d) ==
    /\ Len(d) = 11 /\ two_digits_ok(d, 1) /\ SubSeq(d, 3, 11) = <<" ", "J", "a", "n", " ", "2", "0", "2", "4">>
    /\ two_digits(d, 1) >= 1 /\ two_digits(d, 1) <= 31
date_day(d) == two_digits(d, 1)

\* datetime.strptime(f'{date} {time}{offset}', '%d %b %Y %H:%M%z')
strptime_ok(date, time, offset) == date_ok(date) /\ hhmm_ok(time) /\ offset_ok(offset)
strptime(date, time, offset) ==
    DT(date_day(date) * 24 * 60 + hhmm(time), offset_minutes(offset))

\* dt.strftime('%H:%M')
strftime_hhmm(dt) ==
    LET m == dt.local % (24 * 60)
        two(n) == IF n < 10 THEN <<"0">> \o format_nat(n) ELSE format_nat(n)
    IN  two(m \div 60) \o <<":">> \o two(m % 60)

\* s.strip()
RECURSIVE lstrip(_)
lstrip(s) == IF s # <<>> /\ isspace(s[1]) THEN lstrip(Tail(s)) ELSE s
RECURSIVE rstrip(_)
rstrip(s) ==
    IF s # <<>> /\ isspace(s[Len(s)]) THEN rstrip(SubSeq(s, 1, Len(s) - 1)) ELSE s
strip(s) == rstrip(lstrip(s))

(***************************************************************************)
(* Reference tables: the airport records data_loader unpickles.  The       *)
(* offset of a record may be empty.                                        *)
(***************************************************************************)
airports_pkl ==
    << [iata |-> <<"B", "G", "Y">>, tz_name |-> "Europe/Rome",   tz_offset |-> <<"+", "0", "2", ":", "0", "0">>],
       [iata |-> <<"P", "I", "K">>, tz_name |-> "Europe/London", tz_offset |-> <<"+", "0", "1", ":", "0", "0">>],
       [iata |-> <<"K", "T", "W">>, tz_name |-> "Europe/Warsaw", tz_offset |-> <<"+", "0", "2", ":", "0", "0">>],
       [iata |-> <<"T", "B", "S">>, tz_name |-> "Asia/Tbilisi",  tz_offset |-> <<>>] >>

by_iata_has(k) == \E i \in DOMAIN airports_pkl : airports_pkl[i].iata = k
by_iata(k) == airports_pkl[LastOf({i \in DOMAIN airports_pkl : airports_pkl[i].iata = k})]

\* None is "" for the zone name and <<>> for the offset
get_airport_timezone_name(airport_iata) ==
    IF airport_iata = <<>> \/ ~by_iata_has(upper(airport_iata)) THEN ""
    ELSE by_iata(upper(airport_iata)).tz_name

get_airport_timezone_offset(airport_iata) ==
    IF airport_iata = <<>> \/ ~by_iata_has(upper(airport_iata)) THEN <<>>
    ELSE by_iata(upper(airport_iata)).tz_offset

(***************************************************************************)
(* data_validator                                                          *)
(***************************************************************************)
\* re.search(r'(?<=\()([A-Z]{3})(?=\))', field): the places where it matches
AirportMatches(field) ==
    {p \in DOMAIN field :
        /\ p + 4 <= Len(field)
        /\ field[p] = "(" /\ field[p + 4] = ")"
        /\ \A k \in 1..3 : isupper(field[p + k])}
airport_search_ok(field) == AirportMatches(field) # {}
airport_search(field) ==
    LET p == CHOOSE q \in AirportMatches(field) : \A r \in AirportMatches(field) : q <= r
    IN  SubSeq(field, p + 1, p + 3)

\* the rows whose status starts with the prefix, by Python (0-based) index
StatusIndexes(data, prefix) ==
    {i - 1 : i \in {j \in DOMAIN data : startswith(data[j].status, prefix)}}
SetMax(S) == CHOOSE x \in S : \A y \in S : y <= x
SetMin(S) == CHOOSE x \in S : \A y \in S : x <= y

\* data[start:stop] for 0 <= start, stop
PySlice(data, start, stop) == SubSeq(data, start + 1, stop)

\* _start_index: the last Scheduled row; None starts the slice at 0
StartIndex(data) ==
    LET scheduled_indexes == StatusIndexes(data, <<"S", "c", "h", "e", "d", "u", "l", "e", "d">>)
    IN  IF scheduled_indexes = {} THEN 0 ELSE SetMax(scheduled_indexes)

\* (mutant) _landed_indexes[-1] in place of _landed_indexes[0] + 1
StopIndex_last(data) ==
    LET landed_indexes == StatusIndexes(data, <<"L", "a", "n", "d", "e", "d">>)
    IN  IF landed_indexes = {} THEN Len(data) ELSE SetMax(landed_indexes)

\* _stop_index: one past the first Landed row; None ends the slice at len
StopIndex(data) ==
    LET landed_indexes == StatusIndexes(data, <<"L", "a", "n", "d", "e", "d">>)
    IN  IF landed_indexes = {} THEN Len(data) ELSE SetMin(landed_indexes) + 1

\* the short-mode window, lines 184-192
ShortWindow(data) == PySlice(data, StartIndex(data), StopIndex(data))

\* _offsets_table.get(code), then the lookup and the memo when it is falsy
OffsetLookup(table, code) ==
    LET cached == IF code \in DOMAIN table THEN table[code] ELSE <<>>
    IN  IF cached # <<>> THEN [off |-> cached, table |-> table]
        ELSE LET found == get_airport_timezone_offset(code)
             IN  [off |-> found, table |-> DictSet(table, code, found)]

ArrivalLabels == { <<"L", "a", "n", "d", "e", "d">>, <<"E", "s", "t", "i", "m", "a", "t", "e", "d">>, <<"D", "e", "l", "a", "y", "e", "d">> }
DepartureLabels == { <<"E", "s", "t", "i", "m", "a", "t", "e", "d", " ", "d", "e", "p", "a", "r", "t", "u", "r", "e">> }

\* (mutant) the scheduled departure is looked at before the status time
Timeline_std_first(status_time, std, now) ==
    IF Instant(std) > now THEN "future"
    ELSE IF ~status_time.isNone /\ Instant(status_time) < now THEN "past"
    ELSE "not past nor future"

\* lines 252-257
Timeline(status_time, std, now) ==
    IF ~status_time.isNone /\ Instant(status_time) < now THEN "past"
    ELSE IF Instant(std) > now THEN "future"
    ELSE "not past nor future"

\* The loop state: the legs appended so far, the memo of offsets, the local
\* _status_time_offset (unbound until a recognised label binds it) and the
\* exception that ended the loop, if any.
LoopStart ==
    [legs |-> <<>>, offsets_table |-> <<>>, sto_bound |-> FALSE, sto |-> <<>>, exc |-> ""]

Fail(st, e) == [st EXCEPT !.exc = e]

\* lines 219-270: the row parsed once both airports have an offset
ParseRow(st, op, first_key, now, from, from_off, to, to_off) ==
    LET date == strip(op.date) IN
    IF ~strptime_ok(date, op.std, from_off) \/ ~strptime_ok(date, op.sta, to_off)
    THEN Fail(st, "ValueError")
    ELSE
    LET std == strptime(date, op.std, from_off)
        sta == strptime(date, op.sta, to_off)
        atd == IF strptime_ok(date, op.atd, from_off)
               THEN strptime(date, op.atd, from_off) ELSE NoneDT
        tokens == split(op.status)
    IN
    IF tokens = <<>> THEN Fail(st, "ValueError")
    ELSE
    LET last == tokens[Len(tokens)]
        has_time == re_match_hhmm(last)
        status == IF has_time THEN join(SubSeq(tokens, 1, Len(tokens) - 1)) ELSE join(tokens)
        bound == st.sto_bound \/ (has_time /\ status \in ArrivalLabels \cup DepartureLabels)
        sto == IF has_time /\ status \in ArrivalLabels THEN to_off
               ELSE IF has_time /\ status \in DepartureLabels THEN from_off
               ELSE st.sto
        st1 == [st EXCEPT !.sto_bound = bound, !.sto = sto]
    IN
    IF has_time /\ ~bound THEN Fail(st1, "UnboundLocalError")
    ELSE IF has_time /\ ~strptime_ok(date, SubSeq(last, 1, 5), sto) THEN Fail(st1, "ValueError")
    ELSE IF get_airport_timezone_name(from) = "" THEN Fail(st1, "TypeError")
    ELSE
    LET status_time == IF has_time THEN strptime(date, SubSeq(last, 1, 5), sto) ELSE NoneDT
        leg == [first_key |-> first_key, first |-> strip(op.subject),
                std |-> std, atd |-> atd, sta |-> sta,
                status |-> status, status_time |-> status_time,
                from |-> from, to |-> to,
                timeline |-> Timeline(status_time, std, now)]
    IN  [st1 EXCEPT !.legs = Append(st.legs, leg)]

\* lines 194-217: one pass of the loop, up to the two airport checks
RowStep(st, op, first_key, now) ==
    IF op.status = <<"U", "n", "k", "n", "o", "w", "n">> THEN st
    ELSE IF ~airport_search_ok(op.origin) THEN Fail(st, "AttributeError")
    ELSE
    LET from == airport_search(op.origin)
        lf == OffsetLookup(st.offsets_table, from)
        st1 == [st EXCEPT !.offsets_table = lf.table]
    IN
    IF lf.off = <<>> THEN st1
    ELSE IF ~airport_search_ok(op.dest) THEN Fail(st1, "AttributeError")
    ELSE
    LET to == airport_search(op.dest)
        lt == OffsetLookup(lf.table, to)
        st2 == [st EXCEPT !.offsets_table = lt.table]
    IN
    IF lt.off = <<>> THEN st2
    ELSE ParseRow(st2, op, first_key, now, from, lf.off, to, lt.off)

RECURSIVE RowLoop(_, _, _, _)
RowLoop(st, data, first_key, now) ==
    IF data = <<>> \/ st.exc # "" THEN st
    ELSE RowLoop(RowStep(st, data[1], first_key, now), Tail(data), first_key, now)

\* raw_data is [present, rows]: the one-key dict get_api_data returns, or None.
\* now is the instant datetime.now() reads while the batch is processed.
data_validator(name, raw_data, short, now) ==
    IF ~raw_data.present THEN RetNone
    ELSE IF name \notin {"flight_number", "aircraft_reg"} THEN RetNone
    ELSE IF raw_data.rows = <<>> THEN Raise("IndexError")
    ELSE
    LET first_key == IF name = "flight_number" THEN "aircraft_reg" ELSE "flight_number"
        data == IF short THEN ShortWindow(raw_data.rows) ELSE raw_data.rows
        end == RowLoop(LoopStart, data, first_key, now)
    IN  IF end.exc # "" THEN Raise(end.exc) ELSE Ret(end.legs)

(***************************************************************************)
(* get_aircraft_reg_from_flight                                            *)
(***************************************************************************)
\* _flight.get(key): the first key of a leg is 'aircraft_reg' or 'flight_number'
HasKey(leg, key) == leg.first_key = key

LandedPast(leg) == leg.status = <<"L", "a", "n", "d", "e", "d">> /\ leg.timeline = "past"

\* (mutant) any registration that is not empty counts
Reliable_nonempty(flight) == Len(flight.first) > 0

\* line 292: len(_flight.get('aircraft_reg')) > 1
Reliable(flight) == Len(flight.first) > 1

\* (mutant) the loop stops at a Landed leg whatever its timeline
RECURSIVE FilterFlights_anyLanded(_, _)
FilterFlights_anyLanded(flight_history, acc) ==
    IF flight_history = <<>> THEN acc
    ELSE LET flight == flight_history[1] IN
         IF Reliable(flight)
         THEN IF flight.status = <<"L", "a", "n", "d", "e", "d">> THEN Append(acc, flight)
              ELSE FilterFlights_anyLanded(Tail(flight_history), Append(acc, flight))
         ELSE FilterFlights_anyLanded(Tail(flight_history), acc)

\* lines 291-295: the legs with a registration of more than one character, up
\* to and including the first of them that is Landed and past
RECURSIVE FilterFlights(_, _)
FilterFlights(flight_history, acc) ==
    IF flight_history = <<>> THEN acc
    ELSE LET flight == flight_history[1] IN
         IF Reliable(flight)
         THEN IF LandedPast(flight) THEN Append(acc, flight)
              ELSE FilterFlights(Tail(flight_history), Append(acc, flight))
         ELSE FilterFlights(Tail(flight_history), acc)

\* flight_history is what data_validator returned: None or a list of legs
get_aircraft_reg_from_flight(flight_history) ==
    IF flight_history.kind = "None" \/ flight_history.val = <<>> THEN RetNone
    ELSE IF ~HasKey(flight_history.val[1], "aircraft_reg") THEN Raise("TypeError")
    ELSE
    LET flights_filtered == FilterFlights(flight_history.val, <<>>)
        n == Len(flights_filtered)
    IN  IF n = 1 THEN Ret(flights_filtered[1].first)
        ELSE IF n > 1 /\ LandedPast(flights_filtered[n]) THEN Ret(flights_filtered[n - 1].first)
        ELSE RetNone

(***************************************************************************)
(* get_aircraft_location                                                   *)
(***************************************************************************)
\* the index the while loop stops at (0-based): the first Landed leg, or len
LandedIndex(aircraft_history) ==
    LET landed == {i - 1 : i \in {j \in DOMAIN aircraft_history :
                                     aircraft_history[j].status = <<"L", "a", "n", "d", "e", "d">>}}
    IN  IF landed = {} THEN Len(aircraft_history) ELSE SetMin(landed)

\* (mutant) the next leg read whenever the loop index is >= 0
HasNextLeg_always(i) == i >= 0

\* line 342
HasNextLeg(i) == i > 0

\* The dict as a record: has_last and has_next say which keys it holds.
get_aircraft_location(aircraft_history) ==
    IF aircraft_history.kind = "None" \/ aircraft_history.val = <<>> THEN RetNone
    ELSE
    LET h == aircraft_history.val
        i == LandedIndex(h)
        found == i < Len(h)
        has_next == HasNextLeg(i)
        landed == h[IF found THEN i + 1 ELSE 1]
        next == h[IF i > 0 THEN i ELSE 1]
    IN  Ret([has_last             |-> found,
             last_landed_location |-> IF found THEN landed.to ELSE <<>>,
             last_landed_sta      |-> IF found THEN landed.sta ELSE NoneDT,
             last_landed_ata      |-> IF found THEN landed.status_time ELSE NoneDT,
             has_next             |-> has_next,
             next_destination     |-> IF has_next THEN next.to ELSE <<>>,
             next_std             |-> IF has_next THEN next.std ELSE NoneDT,
             next_atd             |-> IF has_next THEN next.atd ELSE NoneDT,
             next_sta             |-> IF has_next THEN next.sta ELSE NoneDT,
             next_status          |-> IF has_next THEN next.status ELSE <<>>,
             next_status_time     |-> IF has_next THEN next.status_time ELSE NoneDT])

(***************************************************************************)
(* generate_output                                                         *)
(***************************************************************************)
\* int(x / y) for y > 0: the quotient truncated towards zero
int_trunc(x, y) == IF x >= 0 THEN x \div y ELSE -((-x) \div y)

\* f'{n}' for an integer
format_int(n) == IF n < 0 THEN <<"-">> \o format_nat(-n) ELSE format_nat(n)

\* int((a - b).total_seconds() / 60)
DelayMinutes(a, b) == int_trunc((Instant(a) - Instant(b)) * 60, 60)

\* (mutant) '+' only for a delay above zero
Sign_positive(delay) == IF delay > 0 THEN <<"+">> ELSE <<>>

\* '+' if delay >= 0 else ''
Sign(delay) == IF delay >= 0 THEN <<"+">> ELSE <<>>

NoFurtherNotice == <<" ", "|", " ", "N", "o", " ", "f", "u", "r", "t", "h", "e", "r", " ", "s", "c", "h", "e", "d", "u", "l", "e", "d", " ", "f", "l", "i", "g", "h", "t", "s", " ", "f", "o", "r", ":", " ">>

\* "\\_{loc}_ {time} ({sign}{delay})"
Arrived(loc, time, sign, delay) ==
    <<"\\", "_">> \o loc \o <<"_", " ">> \o time \o <<" ", "(">> \o sign \o delay \o <<")">>
\* "_{loc}_/ {time} ({sign}{delay})"
Departed(loc, time, sign, delay) ==
    <<"_">> \o loc \o <<"_", "/", " ">> \o time \o <<" ", "(">> \o sign \o delay \o <<")">>

\* d is what get_aircraft_location returned; reg is the global aircraft_reg
generate_output(d, reg) ==
    IF d.kind = "None" THEN RetNone
    ELSE
    LET e == d.val IN
    IF e.last_landed_ata.isNone THEN Raise("AttributeError")
    ELSE IF e.last_landed_sta.isNone THEN Raise("TypeError")
    ELSE
    LET loc0 == e.last_landed_location
        time0 == strftime_hhmm(e.last_landed_ata)
        delay0 == DelayMinutes(e.last_landed_ata, e.last_landed_sta)
        first == Arrived(loc0, time0, Sign(delay0), format_int(delay0))
    IN
    IF e.next_destination = <<>> THEN Ret(first \o NoFurtherNotice \o reg)
    ELSE IF e.next_atd.isNone
    THEN LET next_status_time == IF e.next_status_time.isNone THEN e.next_std
                                 ELSE e.next_status_time
             delay1 == DelayMinutes(next_status_time, e.next_std)
         IN  Ret(first \o <<" ", "|", " ">>
                 \o Departed(loc0, <<"~">> \o strftime_hhmm(next_status_time),
                             Sign(delay1), format_int(delay1))
                 \o <<" ", "|", " ">>
                 \o Arrived(e.next_destination, <<"~">> \o strftime_hhmm(e.next_sta),
                            <<>>, <<"-", "-">>))
    ELSE IF e.next_status_time.isNone THEN Raise("AttributeError")
    ELSE LET delay1 == DelayMinutes(e.next_atd, e.next_std)
             delay2 == DelayMinutes(e.next_status_time, e.next_sta)
         IN  Ret(first \o <<" ", "|", " ">>
                 \o Departed(loc0, strftime_hhmm(e.next_atd), Sign(delay1), format_int(delay1))
                 \o <<" ", "|", " ">>
                 \o Arrived(e.next_destination, <<"~">> \o strftime_hhmm(e.next_status_time),
                            Sign(delay2), format_int(delay2)))

(***************************************************************************)
(* Raw rows.  A row keeps the cells data_validator reads: 0 subject,       *)
(* 1 date, 3 status, 6 scheduled departure, 9 actual departure,            *)
(* 12 scheduled arrival, 15 origin, 18 destination.                        *)
(***************************************************************************)
Row(subject, date, status, std, atd, sta, origin, dest) ==
    [subject |-> subject, date |-> date, status |-> status, std |-> std,
     atd |-> atd, sta |-> sta, origin |-> origin, dest |-> dest]

RowTemplates ==
    { \* a flight still scheduled, no aircraft assigned yet
      Row(<<"-">>, <<"0", "2", " ", "J", "a", "n", " ", "2", "0", "2", "4">>, <<"S", "c", "h", "e", "d", "u", "l", "e", "d">>, <<"2", "1", ":", "3", "5">>, <<"-">>, <<"2", "3", ":", "2", "0">>,
          <<"K", "a", "t", "o", "w", "i", "c", "e", " ", "(", "K", "T", "W", ")">>, <<"M", "i", "l", "a", "n", " ", "(", "B", "G", "Y", ")">>),
      \* a scheduled flight that already shows an aircraft
      Row(<<"G", "-", "E", "Z", "W", "X">>, <<"0", "2", " ", "J", "a", "n", " ", "2", "0", "2", "4">>, <<"S", "c", "h", "e", "d", "u", "l", "e", "d">>, <<"2", "1", ":", "3", "5">>, <<"-">>, <<"2", "3", ":", "2", "0">>,
          <<"K", "a", "t", "o", "w", "i", "c", "e", " ", "(", "K", "T", "W", ")">>, <<"M", "i", "l", "a", "n", " ", "(", "B", "G", "Y", ")">>),
      \* about to leave, a little late
      Row(<<"G", "-", "E", "Z", "U", "K">>, <<"0", "1", " ", "J", "a", "n", " ", "2", "0", "2", "4">>, <<"E", "s", "t", "i", "m", "a", "t", "e", "d", " ", "d", "e", "p", "a", "r", "t", "u", "r", "e", " ", "1", "9", ":", "4", "0">>, <<"1", "9", ":", "3", "0">>, <<"-">>,
          <<"2", "1", ":", "1", "0">>, <<"M", "i", "l", "a", "n", " ", "(", "B", "G", "Y", ")">>, <<"K", "a", "t", "o", "w", "i", "c", "e", " ", "(", "K", "T", "W", ")">>),
      \* landed six minutes late
      Row(<<"G", "-", "E", "Z", "U", "K", " ">>, <<"0", "1", " ", "J", "a", "n", " ", "2", "0", "2", "4", " ">>, <<"L", "a", "n", "d", "e", "d", " ", "1", "9", ":", "0", "6">>, <<"1", "5", ":", "3", "0">>, <<"1", "5", ":", "4", "2">>, <<"1", "9", ":", "0", "0">>,
          <<"P", "r", "e", "s", "t", "w", "i", "c", "k", " ", "(", "P", "I", "K", ")">>, <<"M", "i", "l", "a", "n", " ", "(", "B", "G", "Y", ")">>),
      \* landed after midnight, on the date of its departure
      Row(<<"G", "-", "E", "Z", "W", "X">>, <<"0", "1", " ", "J", "a", "n", " ", "2", "0", "2", "4">>, <<"L", "a", "n", "d", "e", "d", " ", "0", "0", ":", "1", "0">>, <<"2", "1", ":", "3", "0">>, <<"2", "1", ":", "4", "1">>, <<"2", "3", ":", "5", "5">>,
          <<"P", "r", "e", "s", "t", "w", "i", "c", "k", " ", "(", "P", "I", "K", ")">>, <<"M", "i", "l", "a", "n", " ", "(", "B", "G", "Y", ")">>),
      \* landed, no time in the status
      Row(<<"G", "-", "E", "Z", "U", "K">>, <<"0", "1", " ", "J", "a", "n", " ", "2", "0", "2", "4">>, <<"L", "a", "n", "d", "e", "d">>, <<"1", "0", ":", "0", "0">>, <<"1", "0", ":", "0", "5">>, <<"1", "2", ":", "0", "0">>,
          <<"M", "i", "l", "a", "n", " ", "(", "B", "G", "Y", ")">>, <<"P", "r", "e", "s", "t", "w", "i", "c", "k", " ", "(", "P", "I", "K", ")">>),
      Row(<<"-">>, <<"0", "1", " ", "J", "a", "n", " ", "2", "0", "2", "4">>, <<"U", "n", "k", "n", "o", "w", "n">>, <<"0", "8", ":", "0", "0">>, <<"-">>, <<"0", "9", ":", "0", "0">>,
          <<"M", "i", "l", "a", "n", " ", "(", "B", "G", "Y", ")">>, <<"P", "r", "e", "s", "t", "w", "i", "c", "k", " ", "(", "P", "I", "K", ")">>),
      \* a destination the airport table has no offset for
      Row(<<"G", "-", "E", "Z", "U", "K">>, <<"0", "1", " ", "J", "a", "n", " ", "2", "0", "2", "4">>, <<"E", "s", "t", "i", "m", "a", "t", "e", "d", " ", "2", "0", ":", "1", "0">>, <<"1", "7", ":", "0", "0">>, <<"1", "7", ":", "0", "2">>, <<"2", "0", ":", "0", "0">>,
          <<"M", "i", "l", "a", "n", " ", "(", "B", "G", "Y", ")">>, <<"T", "b", "i", "l", "i", "s", "i", " ", "(", "T", "B", "S", ")">>),
      \* an origin without a code the pattern finds
      Row(<<"G", "-", "E", "Z", "U", "K">>, <<"0", "1", " ", "J", "a", "n", " ", "2", "0", "2", "4">>, <<"D", "e", "l", "a", "y", "e", "d", " ", "2", "0", ":", "3", "0">>, <<"1", "8", ":", "0", "0">>, <<"-">>, <<"2", "0", ":", "0", "0">>,
          <<"M", "i", "l", "a", "n", " ", "(", "b", "g", "y", ")">>, <<"P", "r", "e", "s", "t", "w", "i", "c", "k", " ", "(", "P", "I", "K", ")">>),
      \* a status label the validator does not know, with a time
      Row(<<"G", "-", "E", "Z", "U", "K">>, <<"0", "1", " ", "J", "a", "n", " ", "2", "0", "2", "4">>, <<"D", "i", "v", "e", "r", "t", "e", "d", " ", "2", "0", ":", "1", "5">>, <<"1", "8", ":", "0", "0">>, <<"1", "8", ":", "1", "0">>, <<"2", "0", ":", "0", "0">>,
          <<"M", "i", "l", "a", "n", " ", "(", "B", "G", "Y", ")">>, <<"K", "a", "t", "o", "w", "i", "c", "e", " ", "(", "K", "T", "W", ")">>) }

RECURSIVE RowLists(_)
RowLists(n) ==
    IF n = 0 THEN {<<>>}
    ELSE RowLists(n - 1) \cup {Append(l, r) : l \in RowLists(n - 1), r \in RowTemplates}

\* instants of datetime.now(): the evening of 1 Jan between the departure
\* scheduled for 19:30 at BGY and its estimate of 19:40, and 3 Jan
NowChoices == {24 * 60 + 17 * 60 + 35, 3 * 24 * 60}

(***************************************************************************)
(* Pipeline specification: __main__ from a fetched batch on, either the    *)
(* flight's history (validated, then the aircraft identified) or the       *)
(* aircraft's (validated, located, rendered).                              *)
(***************************************************************************)
InitPipeline ==
    /\ dv_name \in {"flight_number", "aircraft_reg"}
    /\ dv_raw_data \in {[present |-> FALSE, rows |-> <<>>]}
                    \cup {[present |-> TRUE, rows |-> l] : l \in RowLists(MaxRows)}
    /\ dv_short \in BOOLEAN
    /\ clock_now \in NowChoices
    /\ aircraft_reg = <<"G", "-", "E", "Z", "U", "K">>
    /\ validated_ret = Unset
    /\ reg_ret = Unset
    /\ location_ret = Unset
    /\ output_ret = Unset
    /\ ResolverIdle /\ ApiIdle /\ WindowIdle

CallDataValidator ==
    /\ dv_name # ""
    /\ validated_ret = Unset
    /\ validated_ret' = data_validator(dv_name, dv_raw_data, dv_short, clock_now)
    /\ UNCHANGED <<dv_name, dv_raw_data, dv_short, clock_now, aircraft_reg, reg_ret, location_ret,
                   output_ret, resolverVars, apiVars, windowVars>>

\* an exception ends the program: the next stage runs on a returned value only
Returned(r) == r.kind \in {"None", "value"}

CallGetAircraftReg ==
    /\ dv_name = "flight_number"
    /\ Returned(validated_ret)
    /\ reg_ret = Unset
    /\ reg_ret' = get_aircraft_reg_from_flight(validated_ret)
    /\ UNCHANGED <<dv_name, dv_raw_data, dv_short, clock_now, aircraft_reg, validated_ret, location_ret,
                   output_ret, resolverVars, apiVars, windowVars>>

CallGetAircraftLocation ==
    /\ dv_name = "aircraft_reg"
    /\ Returned(validated_ret)
    /\ location_ret = Unset
    /\ location_ret' = get_aircraft_location(validated_ret)
    /\ UNCHANGED <<dv_name, dv_raw_data, dv_short, clock_now, aircraft_reg, validated_ret, reg_ret,
                   output_ret, resolverVars, apiVars, windowVars>>

CallGenerateOutput ==
    /\ Returned(location_ret)
    /\ output_ret = Unset
    /\ output_ret' = generate_output(location_ret, aircraft_reg)
    /\ UNCHANGED <<dv_name, dv_raw_data, dv_short, clock_now, aircraft_reg, validated_ret, reg_ret,
                   location_ret, resolverVars, apiVars, windowVars>>

NextPipeline ==
    \/ CallDataValidator
    \/ CallGetAircraftReg
    \/ CallGetAircraftLocation
    \/ CallGenerateOutput

SpecPipeline == InitPipeline /\ [][NextPipeline]_vars

(***************************************************************************)
(* Window specification: the short window applied to a row list, and then  *)
(* to its own result.                                                      *)
(***************************************************************************)
InitWindow ==
    /\ window_rows \in RowLists(MaxRows)
    /\ window_prev = <<>>
    /\ window_passes = 0
    /\ ResolverIdle /\ ApiIdle /\ PipeIdle

ApplyShortWindow ==
    /\ window_passes < MaxPasses
    /\ window_prev' = window_rows
    /\ window_rows' = ShortWindow(window_rows)
    /\ window_passes' = window_passes + 1
    /\ UNCHANGED <<resolverVars, apiVars, pipeVars>>

NextWindow == ApplyShortWindow

SpecWindow == InitWindow /\ [][NextWindow]_vars

(***************************************************************************)
(* Formatter specification: generate_output on synthetic location          *)
(* estimates, the landing up to MaxDelay minutes either side of schedule.  *)
(***************************************************************************)
At(day, hh, mm, off) == DT(day * 24 * 60 + hh * 60 + mm, off)

NoNextLeg ==
    [has_next |-> FALSE, next_destination |-> <<>>, next_std |-> NoneDT,
     next_atd |-> NoneDT, next_sta |-> NoneDT, next_status |-> <<>>,
     next_status_time |-> NoneDT]

NextLeg(to, std, atd, sta, status, status_time) ==
    [has_next |-> TRUE, next_destination |-> to, next_std |-> std, next_atd |-> atd,
     next_sta |-> sta, next_status |-> status, next_status_time |-> status_time]

NextLegs ==
    { NoNextLeg,
      NextLeg(<<"K", "T", "W">>, At(1, 19, 30, 120), NoneDT, At(1, 21, 10, 120),
              <<"S", "c", "h", "e", "d", "u", "l", "e", "d">>, NoneDT),
      NextLeg(<<"K", "T", "W">>, At(1, 19, 30, 120), NoneDT, At(1, 21, 10, 120),
              <<"E", "s", "t", "i", "m", "a", "t", "e", "d", " ", "d", "e", "p", "a", "r", "t", "u", "r", "e">>, At(1, 19, 40, 120)),
      NextLeg(<<"P", "I", "K">>, At(1, 19, 30, 120), At(1, 19, 28, 120), At(1, 21, 10, 60),
              <<"E", "s", "t", "i", "m", "a", "t", "e", "d">>, At(1, 21, 20, 60)),
      NextLeg(<<"P", "I", "K">>, At(1, 19, 30, 120), At(1, 19, 28, 120), At(1, 21, 10, 60),
              <<"C", "a", "n", "c", "e", "l", "e", "d">>, NoneDT) }

\* landed at BGY against a schedule of 19:00 there; the landing time carries
\* the airport's offset or, read with another airport's, one hour less
Estimates ==
    { [has_last |-> TRUE, last_landed_location |-> <<"B", "G", "Y">>,
       last_landed_sta |-> At(1, 19, 0, 120),
       last_landed_ata |-> DT(24 * 60 + 19 * 60 + d, off)] @@ n :
        d \in (0 - MaxDelay)..MaxDelay, off \in {60, 120}, n \in NextLegs }

InitOutput ==
    /\ location_ret \in {Ret(e) : e \in Estimates}
    /\ aircraft_reg \in { <<"G", "-", "E", "Z", "U", "K">> }
    /\ dv_name = ""
    /\ dv_raw_data = [present |-> FALSE, rows |-> <<>>]
    /\ dv_short = FALSE
    /\ clock_now = 0
    /\ validated_ret = Unset
    /\ reg_ret = Unset
    /\ output_ret = Unset
    /\ ResolverIdle /\ ApiIdle /\ WindowIdle

NextOutput == CallGenerateOutput

SpecOutput == InitOutput /\ [][NextOutput]_vars

(***************************************************************************)
(* Claims about the fan-out                                                *)
(***************************************************************************)
\* thread i read a result that is stored and survives the filter
ProducedNonEmpty(i) ==
    /\ threads[i].out # ""
    /\ json_loads_ok(threads[i].out)
    /\ json_loads(threads[i].out) # <<>>

\* the variants (as the dict keys them) that produced a non-empty result
NonEmptyVariants == {threads[i].key : i \in {j \in DOMAIN threads : ProducedNonEmpty(j)}}

KeysDistinct ==
    \A i, j \in DOMAIN query_args :
        i # j => QueryKey(query_args[i]) # QueryKey(query_args[j])

\* C3 as stated: once every fetch of the fan-out has completed, in whatever
\* order, get_api_data returns the merged mapping if and only if exactly one
\* variant produced a non-empty result, and None otherwise.
C3_Original ==
    api_ret # Unset
    => (api_ret.kind = "value" <=> Cardinality(NonEmptyVariants) = 1)

\* C3 restricted to fan-outs whose arguments are pairwise distinct once lower
\* cased: there the statement holds in every completion order.
C3_DistinctKeys ==
    (api_ret # Unset /\ KeysDistinct)
    => (api_ret.kind = "value" <=> Cardinality(NonEmptyVariants) = 1)

\* C3: two distinct variants fetched, one empty and one with rows, the rows returned
C3_DistinctKeys_Witness ==
    /\ api_ret.kind = "value"
    /\ KeysDistinct
    /\ Len(threads) = 2
    /\ \E i \in DOMAIN threads : ~ProducedNonEmpty(i)

(***************************************************************************)
(* Claims about the resolver                                               *)
(***************************************************************************)
Contains(list, x) == InSeq(x, list)

\* the input is code c followed by suffix s
IsInput(c, s) == c \in InputCodes /\ s \in Suffixes /\ flight_number = c \o s

BothResolved == history_ret # Unset /\ resolved_ret # Unset

\* int() and the f-string give the suffix back unchanged
SuffixKept(s) == format_nat(int(s)) = s

C2_Original ==
    \A s \in Suffixes :
        (BothResolved /\ IsInput(ReservedCode, s) /\ s[1] = "0" /\ Len(s) > 1)
        => \/ /\ Contains(history_ret.val, ReservedCode \o Tail(s))
              /\ Contains(history_ret.val, flight_number)
           \/ /\ Contains(resolved_ret.val, ReservedCode \o Tail(s))
              /\ Contains(resolved_ret.val, flight_number)

\* C2 amended: the original and the variant with the single leading zero
\* stripped come together only from get_flight_history on the ICAO spelling of
\* the reserved carrier (EZY075 gives EZY075, U2075, U275).  On U2075 itself
\* get_flight_history returns the input alone, and get_flight_number_resolved
\* returns the code with every leading zero dropped (U275) without the input.
C2_Amended ==
    \A c \in InputCodes, s \in Suffixes :
        (IsInput(c, s) /\ s[1] = "0") =>
            /\ (history_ret # Unset /\ by_icao_has(c) /\ by_icao(c).Code = ReservedCode)
               => history_ret = Ret(<<flight_number, ReservedCode \o s,
                                      ReservedCode \o Tail(s)>>)
            /\ (history_ret # Unset /\ c = ReservedCode)
               => history_ret = Ret(<<flight_number>>)
            /\ (resolved_ret # Unset /\ c = ReservedCode)
               => /\ resolved_ret.kind = "value"
                  /\ Contains(resolved_ret.val, ReservedCode \o format_nat(int(s)))
                  /\ Len(s) > 1 => ~Contains(resolved_ret.val, flight_number)

\* C2 witness: EZY075 resolved by get_flight_history to the three variants.
C2_Witness ==
    /\ flight_number = <<"E", "Z", "Y", "0", "7", "5">>
    /\ history_ret.kind = "value"
    /\ Contains(history_ret.val, <<"U", "2", "7", "5">>)
    /\ Contains(history_ret.val, <<"U", "2", "0", "7", "5">>)
    /\ Contains(history_ret.val, flight_number)

(***************************************************************************)
(* Claims about the aircraft identifier                                    *)
(***************************************************************************)
\* the identifier has answered on a list of legs keyed by registration
IdentifierAnswered ==
    /\ dv_name = "flight_number"
    /\ validated_ret.kind = "value" /\ validated_ret.val # <<>>
    /\ reg_ret # Unset

\* the positions of the legs whose registration is longer than one character
ReliableAt(h) == {i \in DOMAIN h : Len(h[i].first) > 1}

\* the reliable legs that are Landed with timeline past
StopAt(h) == {i \in ReliableAt(h) : h[i].status = <<"L", "a", "n", "d", "e", "d">> /\ h[i].timeline = "past"}

\* the retained legs: the reliable ones up to the first of StopAt, inclusive
RetainedAt(h) == {i \in ReliableAt(h) : \A j \in StopAt(h) : i <= j}

\* C4: with exactly one reliable leg the identifier returns its registration;
\* with two or more retained reliable legs, the last of them Landed and past,
\* it returns the registration of the second-to-last retained leg.
C4_Identifier ==
    IdentifierAnswered =>
        LET h == validated_ret.val
            kept == RetainedAt(h)
        IN  /\ Cardinality(ReliableAt(h)) = 1
                => reg_ret = Ret(h[SetMax(ReliableAt(h))].first)
            /\ (Cardinality(kept) >= 2 /\ SetMax(kept) \in StopAt(h))
                => reg_ret = Ret(h[SetMax(kept \ {SetMax(kept)})].first)

\* C4 witness: three legs, all reliable, the first two of different aircraft
\* and only the third Landed and past; the answer is the second leg's aircraft
C4_Witness ==
    /\ IdentifierAnswered
    /\ Len(validated_ret.val) = 3
    /\ RetainedAt(validated_ret.val) = {1, 2, 3}
    /\ StopAt(validated_ret.val) = {3}
    /\ validated_ret.val[1].first # validated_ret.val[2].first
    /\ reg_ret = Ret(validated_ret.val[2].first)

\* C4 witness of the first case: one reliable leg among several
C4_Witness_single ==
    /\ IdentifierAnswered
    /\ Len(validated_ret.val) >= 2
    /\ Cardinality(ReliableAt(validated_ret.val)) = 1
    /\ reg_ret.kind = "value"

(***************************************************************************)
(* Claims about the location inferencer                                    *)
(***************************************************************************)
\* the inferencer has answered on a non-empty list of legs
LocatorAnswered ==
    /\ dv_name = "aircraft_reg"
    /\ validated_ret.kind = "value" /\ validated_ret.val # <<>>
    /\ location_ret # Unset

\* the positions of the legs whose status is Landed
LandedAt(h) == {i \in DOMAIN h : h[i].status = <<"L", "a", "n", "d", "e", "d">>}

NoLastLanded(e) ==
    /\ ~e.has_last
    /\ e.last_landed_location = <<>>
    /\ e.last_landed_sta = NoneDT /\ e.last_landed_ata = NoneDT

NoNextFields(e) ==
    /\ ~e.has_next
    /\ e.next_destination = <<>> /\ e.next_status = <<>>
    /\ e.next_std = NoneDT /\ e.next_atd = NoneDT
    /\ e.next_sta = NoneDT /\ e.next_status_time = NoneDT

\* C5: on a non-empty leg list without a Landed leg the result holds none of
\* the last-landed fields; with exactly one Landed leg, at the position that
\* has no position before it, the result holds the last-landed fields of that
\* leg and none of the next-leg fields.
C5_Locator ==
    LocatorAnswered =>
        LET h == validated_ret.val
            e == location_ret.val
        IN  /\ location_ret.kind = "value"
            /\ LandedAt(h) = {} => NoLastLanded(e)
            /\ LandedAt(h) = {1} =>
                /\ e.has_last
                /\ e.last_landed_location = h[1].to
                /\ e.last_landed_sta = h[1].sta
                /\ e.last_landed_ata = h[1].status_time
                /\ NoNextFields(e)

\* C5 witness: several legs, only the first of them Landed
C5_Witness ==
    /\ LocatorAnswered
    /\ Len(validated_ret.val) >= 2
    /\ LandedAt(validated_ret.val) = {1}
    /\ location_ret.val.has_last
    /\ ~location_ret.val.has_next

\* C5 witness of the other case: several legs, none Landed
C5_Witness_none ==
    /\ LocatorAnswered
    /\ Len(validated_ret.val) >= 2
    /\ LandedAt(validated_ret.val) = {}
    /\ ~location_ret.val.has_last

(***************************************************************************)
(* Claims about the short window                                           *)
(***************************************************************************)
\* C6: the short window applied to a row list it has produced gives that row
\* list again.
C6_WindowIdempotent ==
    window_passes >= 1 => ShortWindow(window_rows) = window_rows

\* C6 witness: a pass that dropped rows and kept a Scheduled row through a
\* Landed row
C6_Witness ==
    /\ window_passes = 1
    /\ Len(window_prev) > Len(window_rows)
    /\ Len(window_rows) >= 2
    /\ startswith(window_rows[1].status, <<"S", "c", "h", "e", "d", "u", "l", "e", "d">>)
    /\ startswith(window_rows[Len(window_rows)].status, <<"L", "a", "n", "d", "e", "d">>)

(***************************************************************************)
(* Claims about the timeline                                               *)
(***************************************************************************)
StampedBefore(leg, now) == ~leg.status_time.isNone /\ Instant(leg.status_time) < now

\* C7: every emitted leg carries one of the three timeline values; a leg with
\* a status time before now is past whatever its scheduled times; a leg is
\* future only when that is not so and its scheduled departure is after now.
C7_Timeline ==
    validated_ret.kind = "value" =>
        \A i \in DOMAIN validated_ret.val :
            LET leg == validated_ret.val[i] IN
            /\ leg.timeline \in {"past", "future", "not past nor future"}
            /\ StampedBefore(leg, clock_now) => leg.timeline = "past"
            /\ leg.timeline = "future" =>
                ~StampedBefore(leg, clock_now) /\ Instant(leg.std) > clock_now

\* C7 witness: a leg stamped before now whose scheduled departure and arrival
\* are both after now, classified past
C7_Witness ==
    /\ validated_ret.kind = "value"
    /\ \E i \in DOMAIN validated_ret.val :
        LET leg == validated_ret.val[i] IN
        /\ StampedBefore(leg, clock_now)
        /\ Instant(leg.std) > clock_now
        /\ Instant(leg.sta) > clock_now
        /\ leg.timeline = "past"

\* C7 witness of the other values: one batch with a future leg and a leg that
\* is neither
C7_Witness_others ==
    /\ validated_ret.kind = "value"
    /\ \E i, j \in DOMAIN validated_ret.val :
        /\ validated_ret.val[i].timeline = "future"
        /\ validated_ret.val[j].timeline = "not past nor future"

(***************************************************************************)
(* Claims about the formatter                                              *)
(***************************************************************************)
\* the formatter has answered on an estimate with a landing and no next leg
RenderedLanding ==
    /\ output_ret # Unset
    /\ location_ret.kind = "value"
    /\ location_ret.val.has_last /\ ~location_ret.val.has_next

\* C8: the landing is rendered with its delay in whole minutes, landing time
\* minus scheduled arrival, with a '+' before a delay of zero or more and
\* nothing added before a negative one, then the notice and the registration.
C8_LandingDelay ==
    RenderedLanding =>
        LET e == location_ret.val
            delay == Instant(e.last_landed_ata) - Instant(e.last_landed_sta)
            shown == IF delay >= 0 THEN <<"+">> \o format_nat(delay)
                     ELSE <<"-">> \o format_nat(0 - delay)
        IN  output_ret = Ret(<<"\\", "_">> \o e.last_landed_location \o <<"_", " ">>
                             \o strftime_hhmm(e.last_landed_ata)
                             \o <<" ", "(">> \o shown \o <<")">>
                             \o <<" ", "|", " ", "N", "o", " ", "f", "u", "r", "t", "h", "e", "r", " ", "s", "c", "h", "e", "d", "u", "l", "e", "d", " ", "f", "l", "i", "g", "h", "t", "s", " ", "f", "o", "r", ":", " ">>
                             \o aircraft_reg)

\* C8 witness: landed at BGY at 19:06 against 19:00
C8_Witness ==
    /\ RenderedLanding
    /\ location_ret.val.last_landed_ata = At(1, 19, 6, 120)
    /\ location_ret.val.last_landed_sta = At(1, 19, 0, 120)
    /\ output_ret = Ret(<<"\\", "_", "B", "G", "Y", "_", " ", "1", "9", ":", "0", "6", " ", "(", "+", "6", ")", " ", "|", " ", "N", "o", " ", "f", "u", "r", "t", "h", "e", "r", " ", "s", "c", "h", "e", "d", "u", "l", "e", "d", " ", "f", "l", "i", "g", "h", "t", "s", " ", "f", "o", "r", ":", " ", "G", "-", "E", "Z", "U", "K">>)

\* C8 witness of an early landing
C8_Witness_early ==
    /\ RenderedLanding
    /\ output_ret = Ret(<<"\\", "_", "B", "G", "Y", "_", " ", "1", "8", ":", "5", "7", " ", "(", "-", "3", ")", " ", "|", " ", "N", "o", " ", "f", "u", "r", "t", "h", "e", "r", " ", "s", "c", "h", "e", "d", "u", "l", "e", "d", " ", "f", "l", "i", "g", "h", "t", "s", " ", "f", "o", "r", ":", " ", "G", "-", "E", "Z", "U", "K">>)

\* C8 witness of a landing on time
C8_Witness_zero ==
    /\ RenderedLanding
    /\ output_ret = Ret(<<"\\", "_", "B", "G", "Y", "_", " ", "1", "9", ":", "0", "0", " ", "(", "+", "0", ")", " ", "|", " ", "N", "o", " ", "f", "u", "r", "t", "h", "e", "r", " ", "s", "c", "h", "e", "d", "u", "l", "e", "d", " ", "f", "l", "i", "g", "h", "t", "s", " ", "f", "o", "r", ":", " ", "G", "-", "E", "Z", "U", "K">>)

(***************************************************************************)
(* Claims about the batch, end to end                                      *)
(***************************************************************************)
\* the row positions whose status starts with the prefix
RowsStarting(rows, prefix) == {i \in DOMAIN rows : startswith(rows[i].status, prefix)}

\* an airport field with a code the pattern finds and the table has an offset for
AirportKnown(field) ==
    airport_search_ok(field) /\ get_airport_timezone_offset(airport_search(field)) # <<>>

\* the registration a row carries is longer than one character
RowReliable(r) == Len(strip(r.subject)) > 1

\* a row without a reliable registration and without a time in its status
RowQuiet(r) ==
    /\ ~RowReliable(r)
    /\ split(r.status) # <<>>
    /\ ~re_match_hhmm(split(r.status)[Len(split(r.status))])

\* the scenario: the flight's rows in short mode, one Scheduled row at s, one
\* Landed row with a reliable registration at l after it, every airport known
C9_Scenario(s, l) ==
    /\ dv_name = "flight_number" /\ dv_short /\ dv_raw_data.present
    /\ RowsStarting(dv_raw_data.rows, <<"S", "c", "h", "e", "d", "u", "l", "e", "d">>) = {s}
    /\ RowsStarting(dv_raw_data.rows, <<"L", "a", "n", "d", "e", "d">>) = {l}
    /\ s < l
    /\ RowReliable(dv_raw_data.rows[l])
    /\ \A i \in DOMAIN dv_raw_data.rows :
        AirportKnown(dv_raw_data.rows[i].origin) /\ AirportKnown(dv_raw_data.rows[i].dest)

\* the validator returns legs and the identifier the registration of row l
C9_Answer(l) ==
    /\ validated_ret # Unset => validated_ret.kind = "value"
    /\ reg_ret # Unset => reg_ret = Ret(strip(dv_raw_data.rows[l].subject))

AirportProblem(r) ==
    /\ r.status # <<"U", "n", "k", "n", "o", "w", "n">>
    /\ ~AirportKnown(r.origin) \/ ~AirportKnown(r.dest)

AirportsFine(r) == ~AirportProblem(r)

\* a row at which the loop meets a field the pattern does not match
AirportMalformed(r) ==
    /\ r.status # <<"U", "n", "k", "n", "o", "w", "n">>
    /\ \/ ~airport_search_ok(r.origin)
       \/ AirportKnown(r.origin) /\ ~airport_search_ok(r.dest)

\* the rows the loop runs over
BatchRows == IF dv_short THEN ShortWindow(dv_raw_data.rows) ELSE dv_raw_data.rows

\* the validator has run on a batch with at least one row
BatchValidated ==
    /\ validated_ret # Unset
    /\ dv_raw_data.present /\ dv_raw_data.rows # <<>>
    /\ dv_name \in {"flight_number", "aircraft_reg"}

\* what the loop gives for the batch without its rows with an airport problem
WithoutAirportProblems ==
    RowLoop(LoopStart, SelectSeq(BatchRows, AirportsFine),
            IF dv_name = "flight_number" THEN "aircraft_reg" ELSE "flight_number",
            clock_now)

\* C10 as stated: when a batch has rows with an airport problem and its other
\* rows are processed without failure, the validator returns the legs of the
\* other rows, in their order.
C10_Original ==
    (/\ BatchValidated
     /\ \E i \in DOMAIN BatchRows : AirportProblem(BatchRows[i])
     /\ WithoutAirportProblems.exc = "")
        => validated_ret = Ret(WithoutAirportProblems.legs)

\* C10 for codes the table lacks: the same, for batches in which no row has a
\* field the pattern does not match.
C10_AbsentCodes ==
    (/\ BatchValidated
     /\ \E i \in DOMAIN BatchRows : AirportProblem(BatchRows[i])
     /\ \A i \in DOMAIN BatchRows : ~AirportMalformed(BatchRows[i])
     /\ WithoutAirportProblems.exc = "")
        => validated_ret = Ret(WithoutAirportProblems.legs)

\* a batch with a row of an absent code between two rows that are emitted
C10_AbsentCodes_Witness ==
    /\ BatchValidated
    /\ Len(BatchRows) = 3
    /\ AirportProblem(BatchRows[2]) /\ ~AirportMalformed(BatchRows[2])
    /\ validated_ret.kind = "value"
    /\ Len(validated_ret.val) = 2

(***************************************************************************)
(* Claims about unrecognised status labels                                 *)
(***************************************************************************)
\* a status that ends in an HH:MM token after a label the validator has no
\* offset rule for
RowUnrecognised(r) ==
    LET tokens == split(r.status) IN
    /\ tokens # <<>>
    /\ re_match_hhmm(tokens[Len(tokens)])
    /\ join(SubSeq(tokens, 1, Len(tokens) - 1)) \notin ArrivalLabels \cup DepartureLabels

RowNotUnknown(r) == r.status # <<"U", "n", "k", "n", "o", "w", "n">>

\* the rows of the batch that reach the parsing of the status
RowsParsed == SelectSeq(BatchRows, RowNotUnknown)

\* a batch without airport problems that holds a row with such a status
C11_Scenario ==
    /\ BatchValidated
    /\ \A i \in DOMAIN BatchRows : AirportsFine(BatchRows[i])
    /\ \E i \in DOMAIN BatchRows : RowUnrecognised(BatchRows[i])

\* C11 as stated: the validator returns a leg for every row that is not
\* Unknown, and the leg of a row with an unrecognised label before its time
\* has no status time, whatever rows came before it.
C11_Original ==
    C11_Scenario =>
        /\ validated_ret.kind = "value"
        /\ Len(validated_ret.val) = Len(RowsParsed)
        /\ \A i \in DOMAIN RowsParsed :
            RowUnrecognised(RowsParsed[i]) => validated_ret.val[i].status_time.isNone

\* C11, the batch is not aborted: in the scenario the validator returns.
C11_NoAbort ==
    C11_Scenario => validated_ret.kind = "value"

\* C11, no time from another row: a leg of a row with an unrecognised label
\* never carries a status time.
C11_NoStaleTime ==
    (C11_Scenario /\ validated_ret.kind = "value"
        /\ Len(validated_ret.val) = Len(RowsParsed))
        => \A i \in DOMAIN RowsParsed :
            RowUnrecognised(RowsParsed[i]) => validated_ret.val[i].status_time.isNone

(***************************************************************************)
(* Claims about the stages after the validator                             *)
(***************************************************************************)
\* a stage that has run ended with a value or with None
EndedClean(r) == r # Unset => Returned(r)

\* the stage had None or an empty leg list to work on
NoLegs(r) == r.kind = "None" \/ (r.kind = "value" /\ r.val = <<>>)

\* C12 as stated: on whatever the validator returned, the identifier, the
\* inferencer and the formatter each end with a value or with None, and a
\* stage given None ends with None.
C12_Original ==
    /\ EndedClean(reg_ret)
    /\ EndedClean(location_ret)
    /\ EndedClean(output_ret)
    /\ (validated_ret.kind = "None" /\ reg_ret # Unset) => reg_ret = RetNone
    /\ (validated_ret.kind = "None" /\ location_ret # Unset) => location_ret = RetNone
    /\ (location_ret.kind = "None" /\ output_ret # Unset) => output_ret = RetNone

\* C12, the stages that keep it: the identifier and the inferencer end with a
\* value or None, and every stage given None or no legs ends with None.
C12_ExceptFormatter ==
    /\ EndedClean(reg_ret)
    /\ EndedClean(location_ret)
    /\ (NoLegs(validated_ret) /\ reg_ret # Unset) => reg_ret = RetNone
    /\ (NoLegs(validated_ret) /\ location_ret # Unset) => location_ret = RetNone
    /\ (location_ret.kind = "None" /\ output_ret # Unset) => output_ret = RetNone

\* the None passed down all three stages of the aircraft's side
C12_ExceptFormatter_Witness ==
    /\ validated_ret.kind = "None"
    /\ location_ret = RetNone
    /\ output_ret = RetNone

\* C12, the Landed leg without a time: the formatter fails on an estimate
\* whose last landing has no landing time.
C12_LandedWithoutTime ==
    /\ location_ret.kind = "value"
    /\ location_ret.val.has_last
    /\ location_ret.val.last_landed_ata.isNone
    /\ output_ret = Raise("AttributeError")

(***************************************************************************)
(* Claims about the next leg                                               *)
(***************************************************************************)
\* the result holds the next-leg fields, read from the leg at position p
NextFieldsFrom(e, h, p) ==
    /\ e.has_next
    /\ e.next_destination = h[p].to
    /\ e.next_std = h[p].std /\ e.next_atd = h[p].atd /\ e.next_sta = h[p].sta
    /\ e.next_status = h[p].status /\ e.next_status_time = h[p].status_time

\* C13 as stated: the next-leg fields are there only when the first Landed leg
\* has a leg before it, which they are read from; without a Landed leg, or
\* with the first Landed leg in front, the result has none of them.
C13_Original ==
    LocatorAnswered =>
        LET h == validated_ret.val
            e == location_ret.val
        IN  IF LandedAt(h) # {} /\ SetMin(LandedAt(h)) > 1
            THEN NextFieldsFrom(e, h, SetMin(LandedAt(h)) - 1)
            ELSE NoNextFields(e)

\* C13 when a leg is Landed: the same, for leg lists with a Landed leg.
C13_WhenLanded ==
    (LocatorAnswered /\ LandedAt(validated_ret.val) # {}) =>
        LET h == validated_ret.val
            e == location_ret.val
        IN  IF SetMin(LandedAt(h)) > 1
            THEN NextFieldsFrom(e, h, SetMin(LandedAt(h)) - 1)
            ELSE NoNextFields(e)

\* a Landed leg behind two others: the next leg is the one just before it
C13_WhenLanded_Witness ==
    /\ LocatorAnswered
    /\ LandedAt(validated_ret.val) # {}
    /\ SetMin(LandedAt(validated_ret.val)) = 3
    /\ validated_ret.val[1] # validated_ret.val[2]
    /\ NextFieldsFrom(location_ret.val, validated_ret.val, 2)

\* C13 without a Landed leg: the result holds the next-leg fields of the last
\* leg of the list.
C13_NoLandedLastLeg ==
    /\ LocatorAnswered
    /\ LandedAt(validated_ret.val) = {}
    /\ Len(validated_ret.val) >= 2
    /\ validated_ret.val[1] # validated_ret.val[Len(validated_ret.val)]
    /\ NextFieldsFrom(location_ret.val, validated_ret.val, Len(validated_ret.val))

(***************************************************************************)
(* Claims about the keys of the fan-out                                    *)
(***************************************************************************)
\* thread i has read its subprocess and is about to store under its key
AboutToStore(i) ==
    /\ threads[i].pc = "read"
    /\ threads[i].out = "" \/ json_loads_ok(threads[i].out)

\* C14 as stated: no two fetch tasks of a fan-out that are running at the
\* same time write the same key of the result mapping.
C14_Original ==
    \A i, j \in DOMAIN threads :
        (i # j /\ AboutToStore(i) /\ AboutToStore(j)) => threads[i].key # threads[j].key

\* C14 for the variant lists themselves: the resolver returns no variant twice.
C14_ResolverDistinct ==
    resolved_ret.kind = "value" =>
        \A i, j \in DOMAIN resolved_ret.val :
            i # j => resolved_ret.val[i] # resolved_ret.val[j]

\* C14 with distinct arguments: when no two query arguments are equal once
\* lower-cased, no two tasks have the same key.
C14_DistinctArgs ==
    (\A i, j \in DOMAIN query_args :
        i # j => lower(query_args[i]) # lower(query_args[j]))
        => \A i, j \in DOMAIN threads : i # j => threads[i].key # threads[j].key

\* two tasks of distinct arguments, both about to store
C14_DistinctArgs_Witness ==
    /\ Len(threads) = 2
    /\ AboutToStore(1) /\ AboutToStore(2)
    /\ threads[1].key # threads[2].key

====
